---- MODULE Spec2Model ----
\* The solar-flare prediction form: three variants of one React component.
\*   "flare"       src/src/components/SolarFlareForm.tsx  (validated, flare class)
\*   "validated"   src/unnamed/part_000 lines 1-395       (validated, probability)
\*   "unvalidated" src/unnamed/part_000 lines 397-713     (no validation, probability)
\*
\* Texts are sequences of one-character strings.  Numbers are kept exactly, in
\* thousandths (the finest grain of any literal in the source is '0.015'), as
\* records [k, v]: k = "num" with v the value in thousandths, k = "nan",
\* k = "inf" with v the sign for an infinity, or k = "huge" with v the sign for
\* a finite number of a magnitude beyond Cap, whose value is not kept: every
\* threshold the component compares against lies far below Cap, so a huge
\* number compares, divides and clamps as the infinity of its sign does, and
\* differs from it in a sum only.  Floating-point rounding error is not
\* modelled; a literal is read to its first nine significant digits.
EXTENDS Integers, Sequences, FiniteSets, TLC

VARIABLES
    parameters,   \* variant -> [key -> text]           useState, line 71
    errors,       \* variant -> [failing or touched key -> message or undefined]
    result,       \* variant -> PredictionResult or null
    isLoading,    \* variant -> BOOLEAN
    timers,       \* variant -> sequence of pending handleSubmit continuations,
                  \*            each holding the parameters its render captured
    log,          \* history: variant -> sequence of completed predictions
    lastOp,       \* history: the operation that made the last step
    edits,        \* history: number of handleInputChange calls so far
    call          \* the frame of a validateParameter call checked on its own

vars == <<parameters, errors, result, isLoading, timers, log, lastOp, edits, call>>

----------------------------------------------------------------------------
\* Bounds of the model.

MaxEdits == 2
MaxSubmits == 2

----------------------------------------------------------------------------
\* Numbers.

Scale == 1000
Cap == 1000000000

Num(v) == [k |-> "num", v |-> v]
NaN == [k |-> "nan", v |-> 0]
Inf(s) == [k |-> "inf", v |-> s]
Huge(s) == [k |-> "huge", v |-> s]

\* x is infinite, or finite and beyond Cap
Beyond(x) == x.k = "inf" \/ x.k = "huge"

isNaN(x) == x.k = "nan"

\* a number of thousandths, huge when it leaves [-Cap, Cap]
Norm(v) == IF v > Cap THEN Huge(1) ELSE IF v < -Cap THEN Huge(-1) ELSE Num(v)

\* a + b.  Infinity + -Infinity is NaN.  Two huge numbers of one sign are taken
\* to add up to a huge number; the sum of two of opposite signs is a finite
\* number this representation does not determine (no text of the model parses
\* to a huge negative number, so that sum is never formed).
Add(a, b) ==
    IF a.k = "nan" \/ b.k = "nan" THEN NaN
    ELSE IF a.k = "inf" /\ b.k = "inf" THEN (IF a.v = b.v THEN a ELSE NaN)
    ELSE IF a.k = "inf" THEN a
    ELSE IF b.k = "inf" THEN b
    ELSE IF a.k = "huge" /\ b.k = "huge"
         THEN (IF a.v = b.v THEN a ELSE [k |-> "finite"])
    ELSE IF a.k = "huge" THEN a
    ELSE IF b.k = "huge" THEN b
    ELSE Norm(a.v + b.v)

\* where a number lies: below every number within [-Cap, Cap], among them, above
Rank(x) == IF x.k = "inf" THEN 2 * x.v ELSE IF x.k = "huge" THEN x.v ELSE 0

\* a < b and a > b, both false when either side is NaN; a number is compared
\* with a number within [-Cap, Cap] only
Less(a, b) ==
    /\ a.k # "nan" /\ b.k # "nan"
    /\ IF Rank(a) # Rank(b) THEN Rank(a) < Rank(b) ELSE a.k = "num" /\ a.v < b.v
Greater(a, b) == Less(b, a)

\* as OrZero, with the "|| 0" left out
OrZeroLeftOut(x) == x

\* x || 0 : NaN and 0 are falsy
OrZero(x) == IF x.k = "nan" THEN Num(0) ELSE x

Pow10(n) == CASE n = 0 -> 1 [] n = 1 -> 10 [] n = 2 -> 100 [] n = 3 -> 1000
              [] n = 4 -> 10000 [] n = 5 -> 100000 [] n = 6 -> 1000000
              [] n = 7 -> 10000000 [] n = 8 -> 100000000 [] OTHER -> 1000000000

----------------------------------------------------------------------------
\* Texts and the string built-ins the component uses.

WhiteSpace == {" ", "\t", "\n"}
Digits == {"0", "1", "2", "3", "4", "5", "6", "7", "8", "9"}

DigitVal(c) == CASE c = "0" -> 0 [] c = "1" -> 1 [] c = "2" -> 2 [] c = "3" -> 3
                 [] c = "4" -> 4 [] c = "5" -> 5 [] c = "6" -> 6 [] c = "7" -> 7
                 [] c = "8" -> 8 [] c = "9" -> 9

RECURSIVE TrimStart(_)
TrimStart(s) == IF s # <<>> /\ Head(s) \in WhiteSpace THEN TrimStart(Tail(s)) ELSE s

RECURSIVE TrimEnd(_)
TrimEnd(s) ==
    IF s # <<>> /\ s[Len(s)] \in WhiteSpace THEN TrimEnd(SubSeq(s, 1, Len(s) - 1)) ELSE s

\* String.prototype.trim
trim(s) == TrimEnd(TrimStart(s))

\* length of the longest prefix of s made of digits
RECURSIVE DigitRun(_)
DigitRun(s) == IF s # <<>> /\ Head(s) \in Digits THEN 1 + DigitRun(Tail(s)) ELSE 0

\* the digits s[1..n] read as a decimal integer, exact for nine digits and cut
\* off from 10^8 on
RECURSIVE DigitsValue(_, _)
DigitsValue(s, n) ==
    IF n = 0 THEN 0
    ELSE LET hi == DigitsValue(s, n - 1)
         IN  IF hi >= 100000000 THEN hi ELSE hi * 10 + DigitVal(s[n])

Drop(s, n) == SubSeq(s, n + 1, Len(s))

\* number of leading "0" of s
RECURSIVE LeadingZeros(_)
LeadingZeros(s) == IF s # <<>> /\ Head(s) = "0" THEN 1 + LeadingZeros(Tail(s)) ELSE 0

\* number of decimal digits of m in 1 .. 999999999
NumDigits(m) ==
    CHOOSE n \in 1 .. 9 : Pow10(n - 1) <= m /\ (n = 9 \/ m < Pow10(n))

\* m * 10^e, with m in 1 .. 999999999, when it lies beyond Cap: infinite from
\* about 1.7976931348623158e308 on (the largest double rounds from below it),
\* huge below that
BeyondCap(sign, m, e) ==
    LET ord == NumDigits(m) + e
    IN  IF ord > 309 THEN Inf(sign)
        ELSE IF ord < 309 THEN Huge(sign)
        ELSE IF m * Pow10(9 - NumDigits(m)) > 179769313 THEN Inf(sign) ELSE Huge(sign)

\* mantissa m (an integer of at most nine digits) times 10^e, in thousandths
Scaled(sign, m, e) ==
    LET p == e + 3
    IN  IF m = 0 THEN Num(0)
        ELSE IF p >= 0
             THEN IF p > 9 \/ m > Cap \div Pow10(p) THEN BeyondCap(sign, m, e)
                  ELSE Num(sign * m * Pow10(p))
             ELSE IF -p > 9 THEN Num(0) ELSE Num(sign * (m \div Pow10(-p)))

\* parseFloat, in the steps of the grammar of a decimal literal.
\* the exponent part: its digits, after an optional sign; 0 when it has none
ExponentDigits(s) == DigitsValue(s, DigitRun(s))

ExponentValue(s) ==
    IF s # <<>> /\ Head(s) \in {"-", "+"}
    THEN (IF Head(s) = "-" THEN -1 ELSE 1) * ExponentDigits(Tail(s))
    ELSE ExponentDigits(s)

Exponent(s) == IF s # <<>> /\ Head(s) \in {"e", "E"} THEN ExponentValue(Tail(s)) ELSE 0

\* the literal's value from its mantissa digits, nf of them after the point, and
\* from the text that follows them: the first nine significant digits are kept
LiteralValue(sign, mant, nf, rest) ==
    LET lz == LeadingZeros(mant)
        keep == IF Len(mant) - lz > 9 THEN 9 ELSE Len(mant) - lz
    IN  Scaled(sign, DigitsValue(mant, lz + keep),
               Exponent(rest) - nf + (Len(mant) - lz - keep))

\* s holds ni integer digits, then a point if dot = 1, then nf fraction digits
ParseDigits(sign, s, ni, dot, nf) ==
    IF ni + nf = 0 THEN NaN
    ELSE LiteralValue(sign,
                      SubSeq(s, 1, ni) \o SubSeq(s, ni + dot + 1, ni + dot + nf),
                      nf, Drop(s, ni + dot + nf))

Infinity == <<"I", "n", "f", "i", "n", "i", "t", "y">>

\* the literal Infinity, or digits with an optional fraction
ParseFraction(sign, s, ni) ==
    IF Len(s) >= Len(Infinity) /\ SubSeq(s, 1, Len(Infinity)) = Infinity THEN Inf(sign)
    ELSE IF Len(s) > ni /\ s[ni + 1] = "."
    THEN ParseDigits(sign, s, ni, 1, DigitRun(Drop(s, ni + 1)))
    ELSE ParseDigits(sign, s, ni, 0, 0)

ParseSigned(s) ==
    IF s # <<>> /\ Head(s) \in {"-", "+"}
    THEN ParseFraction(IF Head(s) = "-" THEN -1 ELSE 1, Tail(s), DigitRun(Tail(s)))
    ELSE ParseFraction(1, s, DigitRun(s))

\* parseFloat: leading white space is skipped, then the longest prefix that is
\* a decimal literal (sign, digits, fraction, exponent) or Infinity is read; what follows
\* it is ignored; NaN when there is no such prefix.
parseFloat(text) == ParseSigned(TrimStart(text))

----------------------------------------------------------------------------
\* The component's constants.

Variants == {"flare", "validated", "unvalidated"}
Validating == {"flare", "validated"}

\* interface SolarParameters
Keys == {"TOTUSJH", "TOTBSQ", "TOTPOT", "TOTUSJZ", "ABSNJZH", "SAVNCPP", "USFLUX",
         "AREA_ACR", "TOTFZ", "MEANPOT", "R_VALUE", "EPSZ", "SHRGT45"}

\* min and max in whole units (the two validated variants hold the same table)
parameterInfo ==
    [TOTUSJH |-> [min |-> 0, max |-> 10000], TOTBSQ |-> [min |-> 0, max |-> 5000],
     TOTPOT |-> [min |-> 0, max |-> 100000], TOTUSJZ |-> [min |-> 0, max |-> 5000],
     ABSNJZH |-> [min |-> 0, max |-> 1000], SAVNCPP |-> [min |-> 0, max |-> 500],
     USFLUX |-> [min |-> 0, max |-> 50000], AREA_ACR |-> [min |-> 0, max |-> 2000],
     TOTFZ |-> [min |-> 0, max |-> 1000], MEANPOT |-> [min |-> 0, max |-> 1000],
     R_VALUE |-> [min |-> 0, max |-> 5000], EPSZ |-> [min |-> 0, max |-> 100],
     SHRGT45 |-> [min |-> 0, max |-> 1]]

\* sample data of the two validated variants
\* as sampleData, with SHRGT45 given in percent
sampleDataShearInPercent ==
    [TOTUSJH |-> <<"3", "5", "0", "0">>, TOTBSQ |-> <<"2", "5", "0", "0">>,
     TOTPOT |-> <<"4", "5", "0", "0", "0">>, TOTUSJZ |-> <<"2", "8", "0", "0">>,
     ABSNJZH |-> <<"4", "2", "0">>, SAVNCPP |-> <<"2", "5", "0">>,
     USFLUX |-> <<"2", "5", "0", "0", "0">>, AREA_ACR |-> <<"4", "5", "0">>,
     TOTFZ |-> <<"5", "0", "0">>, MEANPOT |-> <<"8", "5", "0">>,
     R_VALUE |-> <<"3", "8", "0", "0">>, EPSZ |-> <<"5", "0">>,
     SHRGT45 |-> <<"3", "5">>]

sampleData ==
    [TOTUSJH |-> <<"3", "5", "0", "0">>, TOTBSQ |-> <<"2", "5", "0", "0">>,
     TOTPOT |-> <<"4", "5", "0", "0", "0">>, TOTUSJZ |-> <<"2", "8", "0", "0">>,
     ABSNJZH |-> <<"4", "2", "0">>, SAVNCPP |-> <<"2", "5", "0">>,
     USFLUX |-> <<"2", "5", "0", "0", "0">>, AREA_ACR |-> <<"4", "5", "0">>,
     TOTFZ |-> <<"5", "0", "0">>, MEANPOT |-> <<"8", "5", "0">>,
     R_VALUE |-> <<"3", "8", "0", "0">>, EPSZ |-> <<"5", "0">>,
     SHRGT45 |-> <<"0", ".", "3", "5">>]

\* sample data of the unvalidated variant
sampleDataUnvalidated ==
    [TOTUSJH |-> <<"3", "5", "0", "0", ".", "5">>,
     TOTBSQ |-> <<"1", "2", "5", "0", "0", "0", ".", "0">>,
     TOTPOT |-> <<"8", "5", "0", "0", ".", "2", "5">>,
     TOTUSJZ |-> <<"2", "8", "0", "0", "0", ".", "0">>,
     ABSNJZH |-> <<"4", "2", "0", "0", ".", "0">>,
     SAVNCPP |-> <<"1", "5", "0", "0", "0", ".", "0">>,
     USFLUX |-> <<"2", ".", "5", "e", "2", "2">>,
     AREA_ACR |-> <<"4", "5", "0", ".", "0">>,
     TOTFZ |-> <<"1", ".", "2", "e", "2", "2">>,
     MEANPOT |-> <<"8", "5", "0", ".", "0">>,
     R_VALUE |-> <<"3", ".", "8", "e", "2", "4">>,
     EPSZ |-> <<"0", ".", "0", "1", "5">>,
     SHRGT45 |-> <<"0", ".", "3", "5">>]

sampleDataOf(v) == IF v = "unvalidated" THEN sampleDataUnvalidated ELSE sampleData

\* the initial state of parameters, and what resetForm stores
emptyParameters == [k \in Keys |-> <<>>]

null == <<>>
undefined == <<"undefined">>
noResult == [null |-> TRUE]

----------------------------------------------------------------------------
\* validateParameter (the two validated variants hold the same function)

\* as validateParameter, with the upper bound itself refused
validateParameterMaxExcluded(key, value) ==
    IF trim(value) = <<>> THEN null
    ELSE LET numValue == parseFloat(value)
             info == parameterInfo[key]
         IN  IF isNaN(numValue) THEN <<"Invalid number">>
             ELSE IF Less(numValue, Num(info.min * Scale))
                     \/ ~Less(numValue, Num(info.max * Scale))
                  THEN <<"Value must be between ", info.min, " and ", info.max>>
                  ELSE null

validateParameter(key, value) ==
    IF trim(value) = <<>> THEN null
    ELSE LET numValue == parseFloat(value)
             info == parameterInfo[key]
         IN  IF isNaN(numValue) THEN <<"Invalid number">>
             ELSE IF Less(numValue, Num(info.min * Scale))
                     \/ Greater(numValue, Num(info.max * Scale))
                  THEN <<"Value must be between ", info.min, " and ", info.max>>
                  ELSE null

----------------------------------------------------------------------------
\* The mock prediction.

RECURSIVE SumOver(_, _)
SumOver(values, S) ==
    IF S = {} THEN Num(0)
    ELSE LET k == CHOOSE x \in S : TRUE
         IN  Add(values[k], SumOver(values, S \ {k}))

\* Object.values(parameters).map((v) => parseFloat(v) || 0), summed and divided
\* by values.length: the quotient sum / len, sum in thousandths
avgValue(params) ==
    LET values == [k \in DOMAIN params |-> OrZero(parseFloat(params[k]))]
    IN  [sum |-> SumOver(values, DOMAIN params), len |-> Cardinality(DOMAIN params)]

\* Math.floor(avg / d), d in whole units
FloorDiv(avg, d) ==
    IF avg.sum.k = "num" THEN Num(avg.sum.v \div (avg.len * d * Scale)) ELSE avg.sum

\* Math.min(x, n)
MathMin(x, n) ==
    IF x.k = "nan" THEN x
    ELSE IF Beyond(x) THEN (IF x.v > 0 THEN Num(n) ELSE x)
    ELSE IF x.v < n THEN x ELSE Num(n)

\* array[index] with a JavaScript number as index
ArrayAt(array, index) ==
    IF index.k = "num" /\ index.v \in 0 .. (Len(array) - 1)
    THEN array[index.v + 1]
    ELSE "undefined"

\* as Clamp, without the Math.min that holds the value at hi
ClampFromBelowOnly(x, lo, hi) ==
    IF x.k = "nan" THEN x
    ELSE IF Beyond(x) THEN (IF x.n > 0 THEN x ELSE [k |-> "num", n |-> lo, d |-> x.d])
    ELSE IF x.n < lo THEN [x EXCEPT !.n = lo]
    ELSE x

\* Math.min(Math.max(x, lo), hi) for a quotient x = n / d
Clamp(x, lo, hi) ==
    IF x.k = "nan" THEN x
    ELSE IF Beyond(x) THEN (IF x.n > 0 THEN [k |-> "num", n |-> hi, d |-> x.d]
                              ELSE [k |-> "num", n |-> lo, d |-> x.d])
    ELSE IF x.n < lo THEN [x EXCEPT !.n = lo]
    ELSE IF x.n > hi THEN [x EXCEPT !.n = hi]
    ELSE x

\* a quotient (sum + shift) / d from a sum that may be infinite or NaN
Quotient(sum, shift, d) ==
    IF sum.k = "num" THEN [k |-> "num", n |-> sum.v + shift, d |-> d]
    ELSE [k |-> sum.k, n |-> sum.v, d |-> d]

\* Math.round of the quotient n / d: the nearest integer, a half going up
MathRound(x) ==
    IF x.k = "num" THEN Num((2 * x.n + x.d) \div (2 * x.d)) ELSE NaN

\* as predictionFlare, with every class from M upwards taken as a major flare
predictionFlareMajorFromM(params) ==
    LET avg == avgValue(params)
        mockClasses == <<"B", "C", "M", "X", "B/C">>
        classIndex == MathMin(FloorDiv(avg, 2500), 4)
        finalClass == ArrayAt(mockClasses, classIndex)
        isMajorFlare == classIndex.k = "num" /\ classIndex.v >= 2
        d == avg.len * 20000 * Scale
        confidence == Clamp(Quotient(avg.sum, (2 * d) \div 5, d), (2 * d) \div 5, (49 * (d \div 50)))
    IN  [binary_prediction |-> IF isMajorFlare THEN "Major Flare" ELSE "No Major Flare",
         final_class |-> finalClass,
         confidence |-> confidence]

\* flare-class variant, after the delay.  confidence is the quotient n / d.
predictionFlare(params) ==
    LET avg == avgValue(params)
        mockClasses == <<"B", "C", "M", "X", "B/C">>
        classIndex == MathMin(FloorDiv(avg, 2500), 4)
        finalClass == ArrayAt(mockClasses, classIndex)
        isMajorFlare == finalClass = "M" \/ finalClass = "X"
        d == avg.len * 20000 * Scale
        confidence == Clamp(Quotient(avg.sum, (2 * d) \div 5, d), (2 * d) \div 5, (49 * (d \div 50)))
    IN  [binary_prediction |-> IF isMajorFlare THEN "Major Flare" ELSE "No Major Flare",
         final_class |-> finalClass,
         confidence |-> confidence]

\* validated probability variant, after the delay.  probability is kept in
\* hundredths: (avg / 10000) * 100 in hundredths is the quotient sum / (len * Scale).
predictionValidated(params) ==
    LET avg == avgValue(params)
        d == avg.len * Scale
        probability == MathRound(Clamp(Quotient(avg.sum, 0, d), 5 * 100 * d, 95 * 100 * d))
    IN  IF Less(probability, Num(30 * 100))
        THEN [probability |-> probability, riskLevel |-> "low",
              message |-> "Low probability of solar flare activity. Conditions appear stable."]
        ELSE IF Less(probability, Num(60 * 100))
        THEN [probability |-> probability, riskLevel |-> "medium",
              message |-> "Moderate probability of solar flare activity. Continue monitoring."]
        ELSE [probability |-> probability, riskLevel |-> "high",
              message |-> "High probability of solar flare activity. Enhanced monitoring recommended."]

\* as predictionUnvalidated, with the probability not held at 5 from below
predictionUnvalidatedNoFloor(params) ==
    LET avg == avgValue(params)
        d == avg.len * Scale
        probability == MathRound(Clamp(Quotient(avg.sum, 0, d), 0, 95 * 100 * d))
    IN  IF Less(probability, Num(30 * 100))
        THEN [probability |-> probability, riskLevel |-> "low",
              message |-> "Low probability of solar flare activity. Conditions appear stable."]
        ELSE IF Less(probability, Num(60 * 100))
        THEN [probability |-> probability, riskLevel |-> "medium",
              message |-> "Moderate probability of solar flare activity. Continue monitoring."]
        ELSE [probability |-> probability, riskLevel |-> "high",
              message |-> "High probability of solar flare activity. Enhanced monitoring recommended."]

\* unvalidated probability variant, after the delay
predictionUnvalidated(params) ==
    LET avg == avgValue(params)
        d == avg.len * Scale
        probability == MathRound(Clamp(Quotient(avg.sum, 0, d), 5 * 100 * d, 95 * 100 * d))
    IN  IF Less(probability, Num(30 * 100))
        THEN [probability |-> probability, riskLevel |-> "low",
              message |-> "Low probability of solar flare activity. Conditions appear stable."]
        ELSE IF Less(probability, Num(60 * 100))
        THEN [probability |-> probability, riskLevel |-> "medium",
              message |-> "Moderate probability of solar flare activity. Continue monitoring."]
        ELSE [probability |-> probability, riskLevel |-> "high",
              message |-> "High probability of solar flare activity. Enhanced monitoring recommended."]

\* the percentage shown for a confidence n / d: Math.round(confidence * 100);
\* d is a multiple of 100, so confidence * 100 is the quotient n / (d / 100)
confidencePercent(confidence) ==
    MathRound([k |-> confidence.k, n |-> confidence.n, d |-> confidence.d \div 100])

prediction(v, params) ==
    CASE v = "flare" -> predictionFlare(params)
      [] v = "validated" -> predictionValidated(params)
      [] v = "unvalidated" -> predictionUnvalidated(params)

----------------------------------------------------------------------------
\* Inputs of the model: the (key, text) pairs a user types.

Inputs ==
    { <<"TOTPOT", <<"1", "0", "0", "0", "0", "0">>>>,
      <<"TOTPOT", <<"1", "0", "0", "0", "0", "1">>>>,
      <<"TOTPOT", <<"3", "9", "0", "0", "0">>>>,
      <<"USFLUX", <<" ">>>>,
      <<"USFLUX", <<"2", ".", "5", "e", "4">>>>,
      <<"USFLUX", <<"5", "e", "4">>>>,
      <<"USFLUX", <<"1", "e", "9", "9", "9">>>>,
      <<"TOTPOT", <<"-", "1", "e", "9", "9", "9">>>>,
      <<"USFLUX", <<"-", "1">>>>,
      <<"SHRGT45", <<"x">>>> }

\* the texts validateParameter is tried on, for every key
Texts ==
    { <<>>, <<" ">>, <<" ", "\t">>, <<"x">>, <<"-">>, <<".">>, <<"0">>, <<"-", "0">>,
      <<"-", "1">>, <<"1">>, <<"1", ".", "5">>, <<"0", ".", "3", "5">>,
      <<"0", ".", "0", "0", "1">>, <<" ", "5", "0", "0", " ">>, <<"5", "0", "0">>,
      <<"5", "0", "1">>, <<"1", "0", "0", "0">>, <<"1", "0", "0", "1">>,
      <<"5", "e", "3">>, <<"5", "0", "0", "1">>, <<"1", "0", "0", "0", "0">>,
      <<"1", "0", "0", "0", "0", ".", "0", "0", "1">>, <<"5", "0", "0", "0", "0">>,
      <<"1", "0", "0", "0", "0", "0">>, <<"1", "0", "0", "0", "0", "1">>,
      <<"1", "e", "5">>, <<"2", ".", "5", "e", "2", "2">>, <<"1", "2", "x">>,
      <<"1", "e", "9", "9", "9">>, <<"-", "1", "e", "9", "9", "9">>,
      <<"I", "n", "f", "i", "n", "i", "t", "y">> }

----------------------------------------------------------------------------
\* State updates.

\* setParameters((prev) => ({ ...prev, [key]: value }))
setParameter(prev, key, value) ==
    [k \in DOMAIN prev \cup {key} |-> IF k = key THEN value ELSE prev[k]]

\* as setError, without the spread of the previous errors
setErrorAlone(prev, key, error) ==
    [k \in {key} |-> IF error = null THEN undefined ELSE error]

\* setErrors((prev) => ({ ...prev, [key]: error || undefined }))
setError(prev, key, error) ==
    [k \in DOMAIN prev \cup {key} |->
        IF k = key THEN (IF error = null THEN undefined ELSE error) ELSE prev[k]]

\* the newErrors object handleSubmit builds over Object.keys(parameters)
newErrors(params) ==
    [k \in {x \in DOMAIN params : validateParameter(x, params[x]) # null} |->
        validateParameter(k, params[k])]

\* as hasErrors, with the flag never set
hasErrorsNeverSet(params) == FALSE

\* hasErrors after the forEach
hasErrors(params) == DOMAIN newErrors(params) # {}

idle == [key |-> "", value |-> <<>>, state |-> "idle", ret |-> null]
Op(name, key) == [op |-> name, key |-> key]

\* what a submit does to a variant: nothing while the submit button is disabled,
\* a rejection when validation fails, a start of the delay otherwise
SubmitOutcome(v) ==
    IF isLoading[v] THEN "disabled"
    ELSE IF v \in Validating /\ hasErrors(parameters[v]) THEN "rejected"
    ELSE "started"

Submitted(v) == Len(log[v]) + Len(timers[v])

----------------------------------------------------------------------------
\* Operations.  Every variant of DOMAIN parameters takes the step.

InitOf(S) ==
    /\ parameters = [v \in S |-> emptyParameters]
    /\ errors = [v \in S |-> <<>>]
    /\ result = [v \in S |-> noResult]
    /\ isLoading = [v \in S |-> FALSE]
    /\ timers = [v \in S |-> <<>>]
    /\ log = [v \in S |-> <<>>]
    /\ lastOp = [v \in S |-> Op("construct", "")]
    /\ edits = 0

Init == (\E v \in Variants : InitOf({v})) /\ call = idle

\* as handleInputChange, without the validation of the typed text
handleInputChangeWithoutValidation(key, value) ==
    /\ edits < MaxEdits
    /\ edits' = edits + 1
    /\ parameters' = [v \in DOMAIN parameters |-> setParameter(parameters[v], key, value)]
    /\ lastOp' = [v \in DOMAIN lastOp |-> Op("handleInputChange", key)]
    /\ UNCHANGED <<errors, result, isLoading, timers, log, call>>

handleInputChange(key, value) ==
    /\ edits < MaxEdits
    /\ edits' = edits + 1
    /\ parameters' = [v \in DOMAIN parameters |-> setParameter(parameters[v], key, value)]
    /\ errors' = [v \in DOMAIN errors |->
                    IF v \in Validating
                    THEN setError(errors[v], key, validateParameter(key, value))
                    ELSE errors[v]]
    /\ lastOp' = [v \in DOMAIN lastOp |-> Op("handleInputChange", key)]
    /\ UNCHANGED <<result, isLoading, timers, log, call>>

\* as fillSampleData, with the sample values also reaching the pending submissions
fillSampleDataSeenByPending ==
    /\ parameters' = [v \in DOMAIN parameters |-> sampleDataOf(v)]
    /\ errors' = [v \in DOMAIN errors |-> <<>>]
    /\ result' = [v \in DOMAIN result |-> noResult]
    /\ timers' = [v \in DOMAIN timers |->
                    [i \in 1 .. Len(timers[v]) |-> [parameters |-> sampleDataOf(v)]]]
    /\ lastOp' = [v \in DOMAIN lastOp |-> Op("fillSampleData", "")]
    /\ UNCHANGED <<isLoading, log, edits, call>>

fillSampleData ==
    /\ parameters' = [v \in DOMAIN parameters |-> sampleDataOf(v)]
    /\ errors' = [v \in DOMAIN errors |-> <<>>]
    /\ result' = [v \in DOMAIN result |-> noResult]
    /\ lastOp' = [v \in DOMAIN lastOp |-> Op("fillSampleData", "")]
    /\ UNCHANGED <<isLoading, timers, log, edits, call>>

\* as resetForm, without setErrors({})
resetFormKeepsErrors ==
    /\ parameters' = [v \in DOMAIN parameters |-> emptyParameters]
    /\ result' = [v \in DOMAIN result |-> noResult]
    /\ lastOp' = [v \in DOMAIN lastOp |-> Op("resetForm", "")]
    /\ UNCHANGED <<errors, isLoading, timers, log, edits, call>>

\* as resetForm, also dropping the pending delay without ending the loading
resetFormDropsTimer ==
    /\ parameters' = [v \in DOMAIN parameters |-> emptyParameters]
    /\ errors' = [v \in DOMAIN errors |-> <<>>]
    /\ result' = [v \in DOMAIN result |-> noResult]
    /\ timers' = [v \in DOMAIN timers |-> <<>>]
    /\ lastOp' = [v \in DOMAIN lastOp |-> Op("resetForm", "")]
    /\ UNCHANGED <<isLoading, log, edits, call>>

resetForm ==
    /\ parameters' = [v \in DOMAIN parameters |-> emptyParameters]
    /\ errors' = [v \in DOMAIN errors |-> <<>>]
    /\ result' = [v \in DOMAIN result |-> noResult]
    /\ lastOp' = [v \in DOMAIN lastOp |-> Op("resetForm", "")]
    /\ UNCHANGED <<isLoading, timers, log, edits, call>>

\* as handleSubmit, with the submit button not disabled while loading
handleSubmitWhileLoading ==
    /\ \A v \in DOMAIN parameters : Submitted(v) < MaxSubmits
    /\ errors' = [v \in DOMAIN errors |->
                    IF v \in Validating /\ hasErrors(parameters[v])
                    THEN newErrors(parameters[v]) ELSE errors[v]]
    /\ isLoading' = [v \in DOMAIN isLoading |->
                    IF v \in Validating /\ hasErrors(parameters[v])
                    THEN isLoading[v] ELSE TRUE]
    /\ timers' = [v \in DOMAIN timers |->
                    IF v \in Validating /\ hasErrors(parameters[v])
                    THEN timers[v]
                    ELSE Append(timers[v], [parameters |-> parameters[v]])]
    /\ lastOp' = [v \in DOMAIN lastOp |-> Op("handleSubmit", "started")]
    /\ UNCHANGED <<parameters, result, log, edits, call>>

\* handleSubmit up to the await.  The submit button is disabled while isLoading
\* is true.  The inputs' `required` attribute keeps the browser from submitting
\* an empty text only: a text of white space passes it and takes the same path
\* as the empty text through validateParameter and parseFloat, so the handler
\* is taken to be callable on any texts.
handleSubmit ==
    /\ \E v \in DOMAIN parameters : ~isLoading[v]
    /\ \A v \in DOMAIN parameters : SubmitOutcome(v) = "started" => Submitted(v) < MaxSubmits
    /\ errors' = [v \in DOMAIN errors |->
                    IF SubmitOutcome(v) = "rejected" THEN newErrors(parameters[v]) ELSE errors[v]]
    /\ isLoading' = [v \in DOMAIN isLoading |->
                    IF SubmitOutcome(v) = "started" THEN TRUE ELSE isLoading[v]]
    /\ timers' = [v \in DOMAIN timers |->
                    IF SubmitOutcome(v) = "started"
                    THEN Append(timers[v], [parameters |-> parameters[v]])
                    ELSE timers[v]]
    /\ lastOp' = [v \in DOMAIN lastOp |-> Op("handleSubmit", SubmitOutcome(v))]
    /\ UNCHANGED <<parameters, result, log, edits, call>>

\* as capturedParameters, reading the parameters of the latest render
currentParameters(v) == parameters[v]

\* the parameters the continuation of handleSubmit reads after the await: those
\* of the render that called handleSubmit, kept by the closure
capturedParameters(v) == Head(timers[v]).parameters

\* as finish, without setIsLoading(false)
finishStillLoading(v, params) == [result |-> prediction(v, params), isLoading |-> TRUE]

\* setResult({...}); setIsLoading(false)
finish(v, params) == [result |-> prediction(v, params), isLoading |-> FALSE]

\* the timer of setTimeout(resolve, 2000) fires and leaves the pending ones
timerFires ==
    /\ \E v \in DOMAIN timers : timers[v] # <<>>
    /\ timers' = [v \in DOMAIN timers |-> IF timers[v] # <<>> THEN Tail(timers[v]) ELSE <<>>]

\* handleSubmit after the await: the delay has elapsed
timerElapses ==
    /\ timerFires
    /\ result' = [v \in DOMAIN result |->
                    IF timers[v] # <<>> THEN finish(v, capturedParameters(v)).result
                    ELSE result[v]]
    /\ isLoading' = [v \in DOMAIN isLoading |->
                    IF timers[v] # <<>> THEN finish(v, capturedParameters(v)).isLoading
                    ELSE isLoading[v]]
    /\ log' = [v \in DOMAIN log |->
                    IF timers[v] # <<>>
                    THEN Append(log[v], [parameters |-> Head(timers[v]).parameters,
                                         avgValue |-> avgValue(capturedParameters(v)),
                                         result |-> result'[v]])
                    ELSE log[v]]
    /\ lastOp' = [v \in DOMAIN lastOp |->
                    IF timers[v] # <<>> THEN Op("timerElapses", "") ELSE lastOp[v]]
    /\ UNCHANGED <<parameters, errors, edits, call>>

Next ==
    \/ \E in \in Inputs : handleInputChange(in[1], in[2])
    \/ fillSampleData
    \/ resetForm
    \/ handleSubmit
    \/ timerElapses

Spec == Init /\ [][Next]_vars

\* a timer that is pending fires: the continuation is its only step
FairSpec == Spec /\ WF_timers(timerFires)

\* The validated and the unvalidated probability variant side by side, on the
\* same operations, fillSampleData left out, submitting valid snapshots only.
PairInit == InitOf({"validated", "unvalidated"}) /\ call = idle

pairSubmit == ~hasErrors(parameters["validated"]) /\ handleSubmit

PairNext ==
    \/ \E in \in Inputs : handleInputChange(in[1], in[2])
    \/ resetForm
    \/ pairSubmit
    \/ timerElapses

PairSpec == PairInit /\ [][PairNext]_vars

\* validateParameter on its own, on every key and every text of Texts
ValidateInit ==
    /\ InitOf({})
    /\ call \in {[key |-> k, value |-> t, state |-> "called", ret |-> null] :
                    k \in Keys, t \in Texts}

validateReturn ==
    /\ call.state = "called"
    /\ call' = [call EXCEPT !.state = "returned",
                            !.ret = validateParameter(call.key, call.value)]
    /\ UNCHANGED <<parameters, errors, result, isLoading, timers, log, lastOp, edits>>

ValidateSpec == ValidateInit /\ [][validateReturn]_vars

----------------------------------------------------------------------------
\* Vocabulary of the properties.

\* a text that is empty or white space only
Blank(text) == \A i \in 1 .. Len(text) : text[i] \in WhiteSpace

\* the parsed value of a text, 0 for a text that is no number
ParsedOrZero(text) == LET x == parseFloat(text) IN IF isNaN(x) THEN Num(0) ELSE x

\* the sum of the parsed values of the thirteen fields, in thousandths
SumOfThirteen(params) == SumOver([k \in Keys |-> ParsedOrZero(params[k])], Keys)

\* the fields validation refuses: not blank, and no number or out of range
Failing(params) ==
    {k \in Keys :
        /\ ~Blank(params[k])
        /\ LET x == parseFloat(params[k])
           IN  \/ isNaN(x)
               \/ Less(x, Num(parameterInfo[k].min * Scale))
               \/ Greater(x, Num(parameterInfo[k].max * Scale))}

\* what validation says of a text in field key: null, or the message
ExpectedError(key, value) ==
    IF Blank(value) THEN null
    ELSE IF isNaN(parseFloat(value)) THEN <<"Invalid number">>
    ELSE IF \/ Beyond(parseFloat(value))
            \/ parseFloat(value).v < parameterInfo[key].min * Scale
            \/ parseFloat(value).v > parameterInfo[key].max * Scale
         THEN <<"Value must be between ", parameterInfo[key].min,
                " and ", parameterInfo[key].max>>
         ELSE null

\* errs shows an error message for key k
HasMessage(errs, k) == k \in DOMAIN errs /\ errs[k] # null /\ errs[k] # undefined

\* a submit of variant v in this state passes validation and starts the delay
Accepted(v) == ~isLoading[v] /\ (v \in Validating => Failing(parameters[v]) = {})

----------------------------------------------------------------------------
\* C1: two completed submissions whose snapshots have the same average (the sum
\* of the thirteen parsed values, divided by 13) stored the same result, whatever
\* happened before and between them.
C1_SameAverageSameResult ==
    \A v \in DOMAIN log : \A i, j \in 1 .. Len(log[v]) :
        SumOfThirteen(log[v][i].parameters) = SumOfThirteen(log[v][j].parameters)
            => log[v][i].result = log[v][j].result

\* two completed submissions of different snapshots with the same average
C1_Witness ==
    \E v \in DOMAIN log : \E i, j \in 1 .. Len(log[v]) :
        /\ log[v][i].parameters # log[v][j].parameters
        /\ SumOfThirteen(log[v][i].parameters) = SumOfThirteen(log[v][j].parameters)
        /\ SumOfThirteen(log[v][i].parameters) # Num(0)
        /\ log[v][i].result = log[v][j].result

\* C2: in the validated variants a submit with a failing field is rejected:
\* errors becomes the map of exactly the failing fields, each with a message,
\* isLoading stays false, no delay is started, result and parameters stay.
C2_RejectedSubmit ==
    [][\A v \in DOMAIN parameters \cap Validating :
        (handleSubmit /\ ~isLoading[v] /\ Failing(parameters[v]) # {})
            => /\ DOMAIN errors'[v] = Failing(parameters[v])
               /\ \A k \in Failing(parameters[v]) : HasMessage(errors'[v], k)
               /\ ~isLoading'[v]
               /\ timers'[v] = timers[v]
               /\ result'[v] = result[v]
               /\ parameters'[v] = parameters[v]]_vars

\* a submit has just been rejected
C2_Witness ==
    \E v \in DOMAIN lastOp \cap Validating :
        /\ lastOp[v] = Op("handleSubmit", "rejected")
        /\ Failing(parameters[v]) # {}
        /\ DOMAIN errors[v] = Failing(parameters[v])

\* C3: an accepted submit sets isLoading at once and leaves result, parameters
\* and errors alone; the elapsing delay makes result non-null and isLoading
\* false in one step and leaves parameters and errors alone; result becomes a
\* prediction in no other step.
C3_ResultAfterDelay ==
    [][\A v \in DOMAIN parameters :
        /\ (handleSubmit /\ Accepted(v))
            => /\ isLoading'[v]
               /\ result'[v] = result[v]
               /\ parameters'[v] = parameters[v]
               /\ errors'[v] = errors[v]
        /\ (timerElapses /\ timers[v] # <<>>)
            => /\ isLoading[v] /\ ~isLoading'[v]
               /\ result'[v] # noResult
               /\ parameters'[v] = parameters[v]
               /\ errors'[v] = errors[v]
        /\ (result'[v] # result[v] /\ result'[v] # noResult)
            => (timerElapses /\ timers[v] # <<>>)]_vars

\* the delay of an accepted submit has just elapsed
C3_Witness ==
    \E v \in DOMAIN lastOp :
        /\ lastOp[v] = Op("timerElapses", "")
        /\ result[v] # noResult
        /\ ~isLoading[v]

\* C4: with the delay always elapsing, a loading form always gets back to not
\* loading with a result stored, whatever is done to the form meanwhile.
C4_SubmitCompletes ==
    (\E v \in DOMAIN isLoading : isLoading[v])
        ~> (\A v \in DOMAIN isLoading : ~isLoading[v] /\ result[v] # noResult)

\* a submission completed although the form was reset during its delay
C4_Witness ==
    \E v \in DOMAIN lastOp :
        /\ lastOp[v] = Op("timerElapses", "")
        /\ parameters[v] = emptyParameters
        /\ log[v][Len(log[v])].parameters # emptyParameters
        /\ ~isLoading[v] /\ result[v] # noResult

\* C5: validateParameter returns no error for a blank text, 'Invalid number'
\* for a text that is no number, the range message exactly when the number is
\* below min or above max of the field, and no error otherwise.
C5_ValidateParameter ==
    call.state = "returned" => call.ret = ExpectedError(call.key, call.value)

\* the upper bound of a field was given and accepted
C5_Witness ==
    /\ call.state = "returned"
    /\ parseFloat(call.value) = Num(parameterInfo[call.key].max * Scale)
    /\ call.ret = null

\* the risk level and the message that belong to a probability in hundredths
RiskOf(p) == IF p < 3000 THEN "low" ELSE IF p < 6000 THEN "medium" ELSE "high"

MessageOf(level) ==
    CASE level = "low" -> "Low probability of solar flare activity. Conditions appear stable."
      [] level = "medium" -> "Moderate probability of solar flare activity. Continue monitoring."
      [] level = "high" ->
            "High probability of solar flare activity. Enhanced monitoring recommended."

\* r is a probability result whose level and message fit its probability in [5, 95]
WellFormedProbability(r) ==
    /\ r.probability.k = "num"
    /\ r.probability.v >= 500 /\ r.probability.v <= 9500
    /\ r.riskLevel = RiskOf(r.probability.v)
    /\ r.message = MessageOf(r.riskLevel)

\* p, in hundredths, is sum / 13 (sum in thousandths, so avg / 10000 * 100 in
\* hundredths is sum / 13000) held to [500, 9500] and rounded, a half going up
RoundedClamped(p, sum) ==
    LET c == IF Beyond(sum) THEN (IF sum.v > 0 THEN 9500 * 13000 ELSE 500 * 13000)
             ELSE IF sum.v < 500 * 13000 THEN 500 * 13000
             ELSE IF sum.v > 9500 * 13000 THEN 9500 * 13000
             ELSE sum.v
    IN  2 * c - 13000 < 2 * p * 13000 /\ 2 * p * 13000 <= 2 * c + 13000

\* the flare class that belongs to a sum of thirteen values, in thousandths
ClassOf(sum) ==
    IF sum.v < 2500 * 13 * Scale THEN "B"
    ELSE IF sum.v < 5000 * 13 * Scale THEN "C"
    ELSE IF sum.v < 7500 * 13 * Scale THEN "M"
    ELSE IF sum.v < 10000 * 13 * Scale THEN "X"
    ELSE "B/C"

\* C6: the average of a prediction is the sum of the parsed values of the
\* thirteen fields, a blank or unparseable one counting 0, divided by thirteen;
\* parameters, and every snapshot of it, has exactly the thirteen keys.
C6_AverageOverThirteen ==
    \A v \in DOMAIN parameters :
        /\ DOMAIN parameters[v] = Keys
        /\ \A i \in 1 .. Len(timers[v]) : DOMAIN timers[v][i].parameters = Keys
        /\ \A i \in 1 .. Len(log[v]) :
            log[v][i].avgValue = [sum |-> SumOfThirteen(log[v][i].parameters), len |-> 13]

\* a prediction was made from a snapshot with a white-space field, an empty
\* field and a number
C6_Witness ==
    \E v \in DOMAIN log : \E i \in 1 .. Len(log[v]) :
        /\ log[v][i].parameters["USFLUX"] = <<" ">>
        /\ log[v][i].parameters["SHRGT45"] = <<>>
        /\ log[v][i].avgValue.len = 13
        /\ log[v][i].avgValue.sum.k = "num" /\ log[v][i].avgValue.sum.v > 0

\* C7: in the flare-class variant every stored result has one of the five
\* labels, the one its average selects (B below 2500, C below 5000, M below
\* 7500, X below 10000, B/C from 10000), and 'Major Flare' exactly for M and X.
C7_FlareClass ==
    "flare" \in DOMAIN log =>
        /\ \A i \in 1 .. Len(log["flare"]) :
            LET e == log["flare"][i]
                sum == SumOfThirteen(e.parameters)
            IN  /\ sum.k = "num" /\ sum.v >= 0
                /\ e.result.final_class = ClassOf(sum)
                /\ e.result.binary_prediction = "Major Flare"
                    <=> e.result.final_class \in {"M", "X"}
        /\ result["flare"] # noResult =>
            /\ result["flare"].final_class \in {"B", "C", "M", "X", "B/C"}
            /\ result["flare"].binary_prediction \in {"Major Flare", "No Major Flare"}
            /\ result["flare"].binary_prediction = "Major Flare"
                <=> result["flare"].final_class \in {"M", "X"}

\* a result of class B/C is stored, from an average of 10000 or more
C7_Witness ==
    /\ "flare" \in DOMAIN log
    /\ result["flare"] # noResult
    /\ result["flare"].final_class = "B/C"
    /\ result["flare"].binary_prediction = "No Major Flare"
    /\ lastOp["flare"] = Op("timerElapses", "")
    /\ SumOfThirteen(log["flare"][Len(log["flare"])].parameters).v >= 10000 * 13 * Scale

\* C8: in the probability variants every stored result has the probability
\* avg / 10000 * 100 held to [5, 95] and rounded to two decimals, the risk level
\* of that probability (low below 30, medium below 60, high from 60) and the
\* message of that level.
C8_Probability ==
    \A v \in DOMAIN log \ {"flare"} :
        /\ result[v] # noResult => WellFormedProbability(result[v])
        /\ \A i \in 1 .. Len(log[v]) :
            /\ WellFormedProbability(log[v][i].result)
            /\ RoundedClamped(log[v][i].result.probability.v,
                              SumOfThirteen(log[v][i].parameters))

\* a result with a probability of exactly 30, which is medium, is stored
C8_Witness ==
    \E v \in DOMAIN log \ {"flare"} :
        /\ result[v] # noResult
        /\ result[v].probability = Num(3000)
        /\ result[v].riskLevel = "medium"
        /\ lastOp[v] = Op("timerElapses", "")

\* C9: handleInputChange(key, value) stores any text unchanged under key, sets
\* the error of key to what validation says of the text (no message when it is
\* valid) and leaves the other fields, the other errors, result and isLoading.
C9_InputChangeFrame ==
    [][\A in \in Inputs : handleInputChange(in[1], in[2]) =>
        \A v \in DOMAIN parameters :
            /\ DOMAIN parameters'[v] = Keys
            /\ parameters'[v][in[1]] = in[2]
            /\ \A k \in Keys \ {in[1]} : parameters'[v][k] = parameters[v][k]
            /\ v \in Validating =>
                /\ HasMessage(errors'[v], in[1]) <=> ExpectedError(in[1], in[2]) # null
                /\ HasMessage(errors'[v], in[1]) => errors'[v][in[1]] = ExpectedError(in[1], in[2])
                /\ \A k \in Keys \ {in[1]} :
                    /\ k \in DOMAIN errors'[v] <=> k \in DOMAIN errors[v]
                    /\ k \in DOMAIN errors[v] => errors'[v][k] = errors[v][k]
            /\ v \notin Validating => errors'[v] = errors[v]
            /\ result'[v] = result[v]
            /\ isLoading'[v] = isLoading[v]
            /\ timers'[v] = timers[v]]_vars

\* a text that is no number has just been typed into a form that already
\* showed the error of another field and held a result
C9_Witness ==
    \E v \in DOMAIN lastOp \cap Validating :
        /\ lastOp[v] = Op("handleInputChange", "SHRGT45")
        /\ parameters[v]["SHRGT45"] = <<"x">>
        /\ errors[v]["SHRGT45"] = <<"Invalid number">>
        /\ HasMessage(errors[v], "TOTPOT")
        /\ result[v] # noResult

\* C10: side by side on the same operations, with valid snapshots submitted,
\* the validated and the unvalidated probability variant hold the same
\* parameters, the same isLoading and the same result in every state.
C10_VariantsAgree ==
    /\ parameters["validated"] = parameters["unvalidated"]
    /\ isLoading["validated"] = isLoading["unvalidated"]
    /\ result["validated"] = result["unvalidated"]

\* both variants have stored the result of a submission
C10_Witness ==
    /\ DOMAIN result = {"validated", "unvalidated"}
    /\ lastOp["validated"] = Op("timerElapses", "")
    /\ lastOp["unvalidated"] = Op("timerElapses", "")
    /\ result["validated"] # noResult
    /\ result["validated"] = result["unvalidated"]
    /\ result["validated"].riskLevel = "medium"

\* C11: a submission's result is computed from the parameters as they were when
\* handleSubmit was called, which are the ones that passed validation: the
\* snapshot is taken by the accepted submit, no later handleInputChange,
\* fillSampleData or resetForm changes it, and the elapsing delay stores the
\* prediction of that snapshot.
C11_ResultFromSnapshot ==
    [][\A v \in DOMAIN parameters :
        /\ (handleSubmit /\ Accepted(v))
            => timers'[v] = Append(timers[v], [parameters |-> parameters[v]])
        /\ ~(handleSubmit /\ Accepted(v)) /\ ~timerElapses
            => timers'[v] = timers[v]
        /\ (timerElapses /\ timers[v] # <<>>)
            => /\ result'[v] = prediction(v, Head(timers[v]).parameters)
               /\ timers'[v] = Tail(timers[v])
        /\ v \in Validating
            => \A i \in 1 .. Len(timers'[v]) : Failing(timers'[v][i].parameters) = {}]_vars

\* the delay has elapsed after the fields were changed during it, and the stored
\* result is the one of the submitted values, not the one of the current values
C11_Witness ==
    \E v \in DOMAIN lastOp :
        /\ lastOp[v] = Op("timerElapses", "")
        /\ log[v][Len(log[v])].parameters # parameters[v]
        /\ result[v] = prediction(v, log[v][Len(log[v])].parameters)
        /\ result[v] # prediction(v, parameters[v])

\* the confidence that belongs to a sum of thirteen values: 0.4 + avg / 20000
\* held to [0.4, 0.98], as a quotient over 13 * 20000 in thousandths
ConfidenceOf(sum) ==
    LET d == 13 * 20000 * Scale
        raw == sum.v + 104000000
    IN  [k |-> "num", d |-> d,
         n |-> IF raw < 104000000 THEN 104000000
               ELSE IF raw > 254800000 THEN 254800000 ELSE raw]

\* a confidence within [0.4, 0.98] that is shown as a percentage within 40 .. 98
ConfidenceInRange(c) ==
    /\ c.k = "num"
    /\ 5 * c.n >= 2 * c.d /\ 50 * (c.n \div 1000) <= 49 * (c.d \div 1000)
    /\ confidencePercent(c).k = "num"
    /\ confidencePercent(c).v \in 40 .. 98

\* C12: in the flare-class variant the confidence of every stored result is
\* 0.4 + avg / 20000 held to [0.4, 0.98], so it lies within [0.4, 0.98], and the
\* percentage shown for it, Math.round(confidence * 100), lies within 40 .. 98.
C12_Confidence ==
    "flare" \in DOMAIN log =>
        /\ result["flare"] # noResult => ConfidenceInRange(result["flare"].confidence)
        /\ \A i \in 1 .. Len(log["flare"]) :
            /\ ConfidenceInRange(log["flare"][i].result.confidence)
            /\ log["flare"][i].result.confidence
                = ConfidenceOf(SumOfThirteen(log["flare"][i].parameters))

\* a result is stored whose confidence was held at 0.98 and is shown as 98
C12_Witness ==
    /\ "flare" \in DOMAIN log
    /\ lastOp["flare"] = Op("timerElapses", "")
    /\ result["flare"] # noResult
    /\ SumOfThirteen(log["flare"][Len(log["flare"])].parameters).v > 11600 * 13 * Scale
    /\ result["flare"].confidence.n = 49 * (result["flare"].confidence.d \div 50)
    /\ confidencePercent(result["flare"].confidence) = Num(98)

\* C13: the unvalidated variant never rejects: a submit of any thirteen texts
\* sets isLoading and starts the delay, showing no error, and the elapsing delay
\* stores a probability within [5, 95], which is 5 with riskLevel 'low' when the
\* average is below 0.
C13_NeverRejects ==
    []["unvalidated" \in DOMAIN parameters =>
        /\ (handleSubmit /\ ~isLoading["unvalidated"])
            => /\ isLoading'["unvalidated"]
               /\ Len(timers'["unvalidated"]) = Len(timers["unvalidated"]) + 1
               /\ errors'["unvalidated"] = <<>>
        /\ (timerElapses /\ timers["unvalidated"] # <<>>)
            => /\ result'["unvalidated"].probability.k = "num"
               /\ result'["unvalidated"].probability.v \in 500 .. 9500
               /\ Less(SumOfThirteen(Head(timers["unvalidated"]).parameters), Num(0))
                    => /\ result'["unvalidated"].probability = Num(500)
                       /\ result'["unvalidated"].riskLevel = "low"]_vars

\* the unvalidated variant has stored a probability that is no number, with
\* riskLevel 'high', from one infinite and one negative infinite field
C13_Witness ==
    /\ "unvalidated" \in DOMAIN result
    /\ lastOp["unvalidated"] = Op("timerElapses", "")
    /\ result["unvalidated"] # noResult
    /\ isNaN(result["unvalidated"].probability)
    /\ result["unvalidated"].riskLevel = "high"
    /\ parseFloat(log["unvalidated"][Len(log["unvalidated"])].parameters["USFLUX"]) = Inf(1)
    /\ parseFloat(log["unvalidated"][Len(log["unvalidated"])].parameters["TOTPOT"]) = Inf(-1)

\* C14: in the validated variants errors shows a message for a field exactly
\* when validation refuses the field's current text, and then it is the message
\* validation gives, in every reachable state.
C14_ErrorsFollowTexts ==
    \A v \in DOMAIN parameters \cap Validating : \A k \in Keys :
        /\ HasMessage(errors[v], k) <=> ExpectedError(k, parameters[v][k]) # null
        /\ HasMessage(errors[v], k) => errors[v][k] = ExpectedError(k, parameters[v][k])

\* a field whose text was refused has been corrected and its message is gone,
\* while the form is loading
C14_Witness ==
    \E v \in DOMAIN parameters \cap Validating :
        /\ "TOTPOT" \in DOMAIN errors[v]
        /\ errors[v]["TOTPOT"] = undefined
        /\ parameters[v]["TOTPOT"] = <<"1", "0", "0", "0", "0", "0">>
        /\ lastOp[v] = Op("handleInputChange", "TOTPOT")
        /\ isLoading[v]

\* C15: at most one submission is in flight: no submit starts while a delay is
\* pending, and isLoading is true exactly when one delay is pending.
C15_OneInFlight ==
    \A v \in DOMAIN isLoading :
        /\ Len(timers[v]) <= 1
        /\ isLoading[v] <=> Len(timers[v]) = 1

\* a second submission is in flight after the first has completed, and a
\* submit made now starts nothing
C15_Witness ==
    \E v \in DOMAIN isLoading :
        /\ isLoading[v]
        /\ Len(timers[v]) = 1
        /\ Len(log[v]) = 1
        /\ SubmitOutcome(v) = "disabled"

\* C16: once resetForm or fillSampleData has cleared the result, a submission
\* that was pending at that moment makes no result appear: from a state whose
\* last operation was the reset or the fill, with a delay pending, the next
\* step leaves result null.
C16_ResultStaysNull ==
    [][\A v \in DOMAIN result :
        (lastOp[v].op \in {"resetForm", "fillSampleData"} /\ timers[v] # <<>>)
            => result'[v] = noResult]_vars

\* a result computed from the empty form is shown with the sample values that
\* were filled in during its delay
C16_Witness ==
    \E v \in DOMAIN result :
        /\ lastOp[v] = Op("timerElapses", "")
        /\ result[v] # noResult
        /\ parameters[v] = sampleDataOf(v)
        /\ log[v][Len(log[v])].parameters = emptyParameters
        /\ result[v] # prediction(v, parameters[v])

\* C17: in the flare-class variant the binary prediction is monotone in the
\* average: of two completed submissions, when the one with the lower (or the
\* same) average stored 'Major Flare', so did the other.
C17_MonotoneMajorFlare ==
    "flare" \in DOMAIN log =>
        \A i, j \in 1 .. Len(log["flare"]) :
            (/\ ~Greater(SumOfThirteen(log["flare"][i].parameters),
                         SumOfThirteen(log["flare"][j].parameters))
             /\ log["flare"][i].result.binary_prediction = "Major Flare")
                => log["flare"][j].result.binary_prediction = "Major Flare"

\* the sample values gave class M and 'Major Flare'; a valid snapshot with a
\* higher average, of 10000 or more, then gave class B/C and 'No Major Flare'
C17_Witness ==
    /\ "flare" \in DOMAIN log
    /\ Len(log["flare"]) = 2
    /\ log["flare"][1].parameters = sampleData
    /\ log["flare"][1].result.final_class = "M"
    /\ log["flare"][1].result.binary_prediction = "Major Flare"
    /\ Failing(log["flare"][2].parameters) = {}
    /\ SumOfThirteen(log["flare"][2].parameters).v >= 10000 * 13 * Scale
    /\ log["flare"][2].result.final_class = "B/C"
    /\ log["flare"][2].result.binary_prediction = "No Major Flare"

\* C18: resetForm, from any state, leaves all thirteen fields empty, errors
\* empty and result null, and leaves isLoading and the pending delay as they
\* were; applied to a state that resetForm has just produced it changes nothing.
C18_ResetForm ==
    [][resetForm =>
        /\ \A v \in DOMAIN parameters :
            /\ DOMAIN parameters'[v] = Keys
            /\ \A k \in Keys : parameters'[v][k] = <<>>
            /\ errors'[v] = <<>>
            /\ result'[v] = noResult
            /\ isLoading'[v] = isLoading[v]
            /\ timers'[v] = timers[v]
        /\ (\A v \in DOMAIN lastOp : lastOp[v] = Op("resetForm", "")) => UNCHANGED vars]_vars

\* resetForm has just been applied, after a completed submission and two
\* edits, while another submission is pending
C18_Witness ==
    \E v \in DOMAIN lastOp :
        /\ lastOp[v] = Op("resetForm", "")
        /\ parameters[v] = emptyParameters
        /\ errors[v] = <<>>
        /\ result[v] = noResult
        /\ isLoading[v]
        /\ log[v] # <<>>
        /\ edits = MaxEdits

\* C19: in the validated variants fillSampleData, from any state, replaces the
\* thirteen fields by sampleData, empties errors, sets result to null and leaves
\* isLoading; validation refuses no sample value, so a submit of the sample
\* values is accepted, and it completes with class M and 'Major Flare' in the
\* flare-class variant and with riskLevel 'high' in the probability variant.
C19_SampleData ==
    [][\A v \in DOMAIN parameters \cap Validating :
        /\ fillSampleData
            => /\ parameters'[v] = sampleData
               /\ \A k \in Keys : ExpectedError(k, parameters'[v][k]) = null
               /\ errors'[v] = <<>>
               /\ result'[v] = noResult
               /\ isLoading'[v] = isLoading[v]
        /\ (handleSubmit /\ parameters[v] = sampleData /\ ~isLoading[v])
            => /\ isLoading'[v]
               /\ timers'[v] = <<[parameters |-> sampleData]>>
               /\ errors'[v] = errors[v]
        /\ (timerElapses /\ timers[v] # <<>> /\ Head(timers[v]).parameters = sampleData)
            => IF v = "flare"
               THEN /\ result'[v].final_class = "M"
                    /\ result'[v].binary_prediction = "Major Flare"
               ELSE result'[v].riskLevel = "high"]_vars

\* the sample values were filled in after an edit and submitted with no edit in
\* between, and the submission has completed
C19_Witness ==
    \E v \in DOMAIN parameters \cap Validating :
        /\ lastOp[v] = Op("timerElapses", "")
        /\ edits > 0
        /\ parameters[v] = sampleData
        /\ errors[v] = <<>>
        /\ log[v][Len(log[v])].parameters = sampleData
        /\ result[v] = log[v][Len(log[v])].result
        /\ IF v = "flare" THEN result[v].final_class = "M" ELSE result[v].riskLevel = "high"

====
